---- MODULE Spec2Model ----
(***************************************************************************)
(* ply-zarr: the PLY header codec (parse_ply_header, attrs_to_ply_header)  *)
(* and the zarr layout mapper (header_from_mesh, write, read) of           *)
(* src/ply_zarr.py.                                                        *)
(*                                                                         *)
(* Text.  A Python str is modelled as a sequence of items; an item is      *)
(* either a maximal run of non-blank characters (a token, a TLA+ string)   *)
(* or SP, one blank character.  "a  b" is <<"a", SP, SP, "b">>.  A header  *)
(* text is a sequence of lines, each line a str without its newline.       *)
(***************************************************************************)
EXTENDS Integers, Sequences, FiniteSets, TLC

SP == " "

\* ---------------------------------------------------------------- bounds
MaxLines == 4
MaxComments == 2
MaxElems == 2
MaxBlocks == 2
MaxRows == 1
MaxPoints == 1
MaxWrites == 2

\* ------------------------------------------------------- python builtins
Tok(t) == <<t>>

\* str.split(): the tokens of a line, blanks dropped
split(line) == SelectSeq(line, LAMBDA s : s # SP)

\* " ".join(strs): the strs with exactly one blank between neighbours
RECURSIVE join(_)
join(strs) ==
    IF strs = <<>> THEN <<>>
    ELSE IF Len(strs) = 1 THEN Head(strs)
    ELSE Head(strs) \o <<SP>> \o join(Tail(strs))

\* the tokens of a split line as Python strs
RECURSIVE Toks(_)
Toks(ts) == IF ts = <<>> THEN <<>> ELSE <<Tok(Head(ts))>> \o Toks(Tail(ts))

\* int(token): decimal literals; Python accepts leading zeros and a sign
IntLiterals ==
    {"0", "1", "2", "3", "4", "5", "6", "7", "8", "9", "08", "+8"}

int_(t) ==
    CASE t = "0" -> 0 [] t = "1" -> 1 [] t = "2" -> 2 [] t = "3" -> 3
      [] t = "4" -> 4 [] t = "5" -> 5 [] t = "6" -> 6 [] t = "7" -> 7
      [] t = "8" -> 8 [] t = "9" -> 9 [] t = "08" -> 8 [] t = "+8" -> 8

\* str(n) / "{:d}".format(n): the canonical decimal literal
str_(n) ==
    CASE n = 0 -> "0" [] n = 1 -> "1" [] n = 2 -> "2" [] n = 3 -> "3"
      [] n = 4 -> "4" [] n = 5 -> "5" [] n = 6 -> "6" [] n = 7 -> "7"
      [] n = 8 -> "8" [] n = 9 -> "9"

\* str.startswith("ply") on the first line of the stream
startswith_ply(line) == line # <<>> /\ Head(line) \in {"ply", "plyx"}

\* ------------------------------------------------------------ dict model
\* attrs["elements"] is an insertion-ordered dict: a sequence of entries
\* with distinct names; assigning an existing key keeps its position.
HasElem(elems, name) == \E i \in 1..Len(elems) : elems[i].name = name

SetElem(elems, name, desc) ==
    IF HasElem(elems, name)
    THEN [i \in 1..Len(elems) |->
            IF elems[i].name = name
            THEN [name |-> name, size |-> desc.size, properties |-> desc.properties]
            ELSE elems[i]]
    ELSE Append(elems, [name |-> name, size |-> desc.size,
                        properties |-> desc.properties])

\* the property appended to the first element instead of the current one
AppendPropFirst(elems, name, prop) ==
    [i \in 1..Len(elems) |->
        IF i = 1
        THEN [elems[i] EXCEPT !.properties = Append(@, prop)]
        ELSE elems[i]]

\* attrs["elements"][elem]["properties"].append(prop)
AppendProp(elems, name, prop) ==
    [i \in 1..Len(elems) |->
        IF elems[i].name = name
        THEN [elems[i] EXCEPT !.properties = Append(@, prop)]
        ELSE elems[i]]

EmptyAttrs == [format |-> <<>>, comments |-> <<>>, elements |-> <<>>]

NoElem == <<>>

\* --------------------------------------------------------- header codec
\* the body of "for line in fh" of parse_ply_header; elem is the local
\* variable of that name, NoElem while it is unbound
RECURSIVE parse_lines(_, _, _)
parse_lines(lines, attrs, elem) ==
    IF lines = <<>> THEN [status |-> "ok", attrs |-> attrs]
    ELSE
      LET toks == split(Head(lines)) IN
      IF toks = <<>> THEN [status |-> "ValueError", attrs |-> EmptyAttrs]
      ELSE
        LET start == Head(toks)
            rest == Tail(toks)
        IN
        CASE start = "format" ->
               parse_lines(Tail(lines),
                           [attrs EXCEPT !.format = join(Toks(rest))], elem)
          [] start = "comment" ->
               parse_lines(Tail(lines),
                           [attrs EXCEPT !.comments = Append(@, join(Toks(rest)))],
                           elem)
          [] start = "element" ->
               IF Len(rest) < 2
               THEN [status |-> "IndexError", attrs |-> EmptyAttrs]
               ELSE IF rest[2] \notin IntLiterals
               THEN [status |-> "ValueError", attrs |-> EmptyAttrs]
               ELSE parse_lines(Tail(lines),
                                [attrs EXCEPT !.elements =
                                    SetElem(@, Tok(rest[1]),
                                            [size |-> int_(rest[2]),
                                             properties |-> <<>>])],
                                Tok(rest[1]))
          [] start = "property" ->
               IF elem = NoElem
               THEN [status |-> "UnboundLocalError", attrs |-> EmptyAttrs]
               ELSE parse_lines(Tail(lines),
                                [attrs EXCEPT !.elements =
                                    AppendProp(@, elem, Toks(rest))],
                                elem)
          [] start = "end_header" -> [status |-> "ok", attrs |-> attrs]
          [] OTHER -> parse_lines(Tail(lines), attrs, elem)

parse_ply_header(fh) ==
    IF fh = <<>> \/ ~startswith_ply(Head(fh))
    THEN [status |-> "IOError", attrs |-> EmptyAttrs]
    ELSE parse_lines(Tail(fh), EmptyAttrs, NoElem)

RECURSIVE prop_lines(_)
prop_lines(props) ==
    IF props = <<>> THEN <<>>
    ELSE <<(<<"property", SP>> \o join(Head(props)))>> \o prop_lines(Tail(props))

RECURSIVE elem_lines(_)
elem_lines(elems) ==
    IF elems = <<>> THEN <<>>
    ELSE LET e == Head(elems) IN
         <<(<<"element", SP>> \o e.name \o <<SP, str_(e.size)>>)>>
           \o prop_lines(e.properties) \o elem_lines(Tail(elems))

comment_lines(comments) ==
    [i \in 1..Len(comments) |-> <<"comment", SP>> \o comments[i]]

\* the serialiser with the comments emitted after the elements
attrs_to_ply_header_late_comments(attrs) ==
    << <<"ply">>, (<<"format", SP>> \o attrs.format) >>
      \o elem_lines(attrs.elements)
      \o comment_lines(attrs.comments)
      \o << <<"end_header">> >>

\* the lines of the returned text, each followed by one newline
attrs_to_ply_header(attrs) ==
    << <<"ply">>, (<<"format", SP>> \o attrs.format) >>
      \o comment_lines(attrs.comments)
      \o elem_lines(attrs.elements)
      \o << <<"end_header">> >>

\* ------------------------------------------------- codec inputs (bounded)
L_format == <<"format", SP, "ascii", SP, "1.0">>
L_comment == <<"comment", SP, "made", SP, "by">>
L_comment_wide == <<"comment", SP, "made", SP, SP, "by">>
L_comment_bare == <<"comment">>
L_vertex == <<"element", SP, "vertex", SP, "8">>
L_vertex_zero == <<"element", SP, "vertex", SP, "08">>
L_face == <<"element", SP, "face", SP, "2">>
L_prop == <<"property", SP, "float", SP, "x">>
L_list == <<"property", SP, "list", SP, "uint8", SP, "int32", SP, "vertex_indices">>

LinePool ==
    {L_format, L_comment, L_comment_wide, L_comment_bare, L_vertex,
     L_vertex_zero, L_face, L_prop, L_list}

P_x == <<Tok("float"), Tok("x")>>
P_list == <<Tok("list"), Tok("uint8"), Tok("int32"), Tok("vertex_indices")>>

ElemPool ==
    [name : {Tok("vertex"), Tok("face"), <<"my", SP, "elem">>},
     size : {0, 8},
     properties : {<<>>, <<P_x>>, <<P_x, P_list>>}]

DistinctNames(es) ==
    \A i, j \in 1..Len(es) : es[i].name = es[j].name => i = j

CommentPool == {<<"made", SP, "by">>, <<"made", SP, SP, "by">>, <<>>}

\* ------------------------------------------------------------ the state
VARIABLES
    kind,    \* "text": a header text is parsed, then serialised;
             \* "attrs": a header record is serialised, then parsed
    x,       \* the header text given (kind = "text")
    rec,     \* the header record given (kind = "attrs")
    text,    \* the current header text
    attrs,   \* the current header record
    step,    \* number of codec calls made
    herr     \* "ok" or the exception parse_ply_header raised

cvars == <<kind, x, rec, text, attrs, step, herr>>

\* no codec call is made
CodecIdle ==
    /\ kind = "none" /\ x = <<>> /\ rec = EmptyAttrs /\ text = <<>>
    /\ attrs = EmptyAttrs /\ step = 0 /\ herr = "ok"

CodecInputs ==
    /\ step = 0
    /\ herr = "ok"
    /\ \/ /\ kind = "text"
          \* "ply", up to MaxLines recognised lines, "end_header"
          /\ \E n \in 0..MaxLines : \E body \in [1..n -> LinePool] :
                x = << <<"ply">> >> \o body \o << <<"end_header">> >>
          /\ text = x
          /\ rec = EmptyAttrs
          /\ attrs = EmptyAttrs
       \/ /\ kind = "attrs"
          \* a record built by hand
          /\ \E nc \in 0..MaxComments, ne \in 0..MaxElems :
                \E cs \in [1..nc -> CommentPool], es \in [1..ne -> ElemPool] :
                   /\ DistinctNames(es)
                   /\ rec = [format |-> <<"ascii", SP, "1.0">>,
                             comments |-> cs, elements |-> es]
          /\ attrs = rec
          /\ x = <<>>
          /\ text = <<>>

\* attrs = parse_ply_header(fh)
DoParse ==
    /\ herr = "ok"
    /\ \/ kind = "text" /\ step = 0
       \/ kind = "attrs" /\ step = 1
    /\ LET r == parse_ply_header(text) IN
         /\ herr' = r.status
         /\ attrs' = r.attrs
    /\ step' = step + 1
    /\ UNCHANGED <<kind, x, rec, text>>

\* header = attrs_to_ply_header(attrs)
DoSerialize ==
    /\ herr = "ok"
    /\ \/ kind = "text" /\ step = 1
       \/ kind = "attrs" /\ step = 0
    /\ text' = attrs_to_ply_header(attrs)
    /\ step' = step + 1
    /\ UNCHANGED <<kind, x, rec, attrs, herr>>


\* ------------------------------------------------------ claims: codec
\* every token of the line separated by exactly one blank, none leading
\* or trailing
Tight(l) ==
    /\ Len(l) % 2 = 1
    /\ \A i \in 1..Len(l) : (i % 2 = 0) <=> (l[i] = SP)

CanonicalSizes == {"0", "1", "2", "3", "4", "5", "6", "7", "8", "9"}

IsElementLine(l) == Len(l) = 5 /\ l[1] = "element" /\ l[5] \in CanonicalSizes
IsPropertyLine(l) == Len(l) >= 3 /\ l[1] = "property"
IsCommentLine(l) == Len(l) >= 3 /\ l[1] = "comment"
IsFormatLine(l) == Len(l) >= 3 /\ l[1] = "format"

\* ply, one format line, the comments, the elements (distinct names) each
\* followed by its properties, end_header; every line tight
CanonicalHeader(h) ==
    /\ Len(h) >= 3
    /\ h[1] = <<"ply">>
    /\ h[Len(h)] = <<"end_header">>
    /\ \A i \in 1..Len(h) : Tight(h[i])
    /\ IsFormatLine(h[2])
    /\ \E c \in 2..(Len(h) - 1) :
         /\ \A i \in 3..c : IsCommentLine(h[i])
         /\ \A i \in (c + 1)..(Len(h) - 1) :
              IsElementLine(h[i]) \/ IsPropertyLine(h[i])
         /\ c + 1 <= Len(h) - 1 => IsElementLine(h[c + 1])
    /\ \A i, j \in 3..(Len(h) - 1) :
         (IsElementLine(h[i]) /\ IsElementLine(h[j]) /\ h[i][3] = h[j][3])
            => i = j

\* a line in the serialiser's own spelling
CanonicalLine(l) ==
    /\ Tight(l)
    /\ \/ l = <<"ply">> \/ l = <<"end_header">>
       \/ IsFormatLine(l) \/ IsCommentLine(l)
       \/ IsElementLine(l) \/ IsPropertyLine(l)

\* C1 (as stated): for any header text x of recognised lines that parses,
\* attrs_to_ply_header(parse_ply_header(x)) gives back the lines of x in
\* the same order; read here for the texts that open with ply and their
\* one format line and spell every line as the serialiser does.
C1_LeftInverseAnyHeader ==
    (/\ kind = "text" /\ step = 2 /\ herr = "ok"
     /\ \A i \in 1..Len(x) : CanonicalLine(x[i])
     /\ \A i \in 1..Len(x) : IsFormatLine(x[i]) <=> i = 2)
    => text = x

\* C1 (amended): for any header text x in canonical layout, parse_ply_header
\* succeeds and attrs_to_ply_header(parse_ply_header(x)) gives back the
\* lines of x in the same order.
C1_LeftInverseCanonical ==
    (kind = "text" /\ CanonicalHeader(x)) =>
        /\ herr = "ok"
        /\ step = 2 => text = x

C1_Witness ==
    /\ kind = "text" /\ step = 2 /\ CanonicalHeader(x)
    /\ \E i, j, k \in 1..Len(x) :
         IsCommentLine(x[i]) /\ IsElementLine(x[j]) /\ IsPropertyLine(x[k])

NormalStr(s) == s = <<>> \/ Tight(s)
IsToken(s) == Len(s) = 1 /\ s[1] # SP

\* element names and property descriptor fields are single tokens
TokenNames(r) ==
    \A i \in 1..Len(r.elements) :
        /\ IsToken(r.elements[i].name)
        /\ \A j \in 1..Len(r.elements[i].properties) :
             \A k \in 1..Len(r.elements[i].properties[j]) :
                IsToken(r.elements[i].properties[j][k])

\* C2 (as stated): for any header record, parse_ply_header of the text
\* attrs_to_ply_header produces returns the record, field for field; read
\* here for the records whose element names and property descriptor
\* fields are single tokens.
C2_RoundTripAnyRecord ==
    (kind = "attrs" /\ step = 2 /\ TokenNames(rec))
    => (herr = "ok" /\ attrs = rec)

\* format and comments whitespace-normalised, names and descriptor fields
\* single tokens
NormalRecord(r) ==
    /\ NormalStr(r.format)
    /\ \A i \in 1..Len(r.comments) : NormalStr(r.comments[i])
    /\ TokenNames(r)

\* C2 (amended): for any header record whose format and comments are
\* whitespace-normalised and whose element names and property descriptor
\* fields are single tokens, parse_ply_header of the text
\* attrs_to_ply_header produces returns the record, field for field.
C2_RoundTripNormalRecord ==
    (kind = "attrs" /\ step = 2 /\ NormalRecord(rec)) =>
        (herr = "ok" /\ attrs = rec)

C2_Witness ==
    /\ kind = "attrs" /\ step = 2 /\ NormalRecord(rec)
    /\ Len(rec.comments) >= 1
    /\ Len(rec.elements) = 2
    /\ rec.elements[2].properties # <<>>

\* ===================================================== the layout mapper
\* ------------------------------------------------------- zarr and numpy
\* A zarr group or a mapping is an insertion-ordered sequence of entries
\* [key, val] with distinct keys.
Has(d, k) == \E i \in 1..Len(d) : d[i].key = k
Get(d, k) == (CHOOSE i \in 1..Len(d) : d[i].key = k)
Val(d, k) == d[Get(d, k)].val

\* d[k] = v: zarr's Group.__setitem__ stores the array, replacing one of
\* the same name
Put(d, k, v) ==
    IF Has(d, k)
    THEN [i \in 1..Len(d) |-> IF d[i].key = k THEN [key |-> k, val |-> v] ELSE d[i]]
    ELSE Append(d, [key |-> k, val |-> v])

NoAttrs == [keys |-> {}, format |-> <<>>, comments |-> <<>>, elements |-> <<>>]

\* zarr.group(): no attributes, no members
EmptyGroup == [attrs |-> NoAttrs, kids |-> <<>>]

\* group.attrs.update(d) with d the dict parse_ply_header returns
attrs_update(a, d) ==
    [keys |-> a.keys \cup {"format", "comments", "elements"},
     format |-> d.format, comments |-> d.comments, elements |-> d.elements]

\* ndarray.astype(np.int32) of one int64 value keeps the low 32 bits; the
\* vertex indices of the meshes below all lie within int32, where the
\* value is kept
astype_int32(v) == v

\* type_name_table of header_from_mesh
type_name_table(dt) ==
    CASE dt = "int8" -> "int8" [] dt = "int16" -> "int16"
      [] dt = "int32" -> "int32" [] dt = "int64" -> "int64"
      [] dt = "uint8" -> "uint8" [] dt = "uint16" -> "uint16"
      [] dt = "uint32" -> "uint32" [] dt = "uint64" -> "uint64"
      [] dt = "float32" -> "float" [] dt = "float64" -> "double"

\* meshio.ply._ply.numpy_to_ply_dtype
numpy_to_ply_dtype(dt) ==
    CASE dt = "int8" -> "int8" [] dt = "int16" -> "int16"
      [] dt = "int32" -> "int32" [] dt = "int64" -> "int64"
      [] dt = "uint8" -> "uint8" [] dt = "uint16" -> "uint16"
      [] dt = "uint32" -> "uint32" [] dt = "uint64" -> "uint64"
      [] dt = "float32" -> "float" [] dt = "float64" -> "double"

\* meshio.ply._ply.cell_type_from_count
cell_type_from_count(n) ==
    CASE n = 1 -> "vertex" [] n = 2 -> "line" [] n = 3 -> "triangle"
      [] n = 4 -> "quad" [] OTHER -> "polygon"

\* str.isnumeric() of a group key
isnumeric(k) == Len(k) = 1 /\ k[1] \in IntLiterals \ {"+8"}

\* datetime.now().isoformat() at the n-th call: one token
isoformat(n) ==
    CASE n = 0 -> "T0" [] n = 1 -> "T1" [] n = 2 -> "T2" [] OTHER -> "T3"

\* len(key) of a cell_data key
KeyLen(k) == IF k = <<"ab">> THEN 2 ELSE 1

W_multidim == "PLY writer doesn't support multidimensional point data yet"
W_downcast == "PLY doesn't support 64-bit integers. Casting down to 32-bit."

\* ------------------------------------------------------ header_from_mesh
dim_names == <<"x", "y", "z">>

coord_lines(points) ==
    [k \in 1..points.shape[2] |->
        <<"property", SP, type_name_table(points.dtype), SP, dim_names[k]>>]

\* the loop over mesh.point_data: property lines of the 1-D entries
RECURSIVE point_data_lines(_)
point_data_lines(pd) ==
    IF pd = <<>> THEN <<>>
    ELSE LET e == Head(pd) IN
         (IF Len(e.val.shape) > 1 THEN <<>>
          ELSE <<(<<"property", SP, type_name_table(e.val.dtype), SP>> \o e.key)>>)
           \o point_data_lines(Tail(pd))

point_data_warns(pd) ==
    IF \E i \in 1..Len(pd) : Len(pd[i].val.shape) > 1 THEN {W_multidim} ELSE {}

RECURSIVE num_cells(_)
num_cells(cells) ==
    IF cells = <<>> THEN 0 ELSE Head(cells).shape[1] + num_cells(Tail(cells))

\* the cast with its result dropped instead of stored in mesh.cells
downcast_dropped(cells) == cells

\* mesh.cells[k] = CellBlock(cell_type, data.astype(np.int32)) for every
\* int64 block
downcast(cells) ==
    [k \in 1..Len(cells) |->
        IF cells[k].dtype = "int64"
        THEN [cells[k] EXCEPT
                !.dtype = "int32",
                !.data = [r \in 1..Len(@) |->
                            [j \in 1..Len(@[r]) |-> astype_int32(@[r][j])]]]
        ELSE cells[k]]

has_cast(cells) == \E k \in 1..Len(cells) : cells[k].dtype = "int64"

\* the check with cell_dtype reassigned for every block
dtypes_differ_self(cells) ==
    \E k \in 1..Len(cells) : cells[k].dtype # cells[k].dtype

\* "assert that all cell dtypes are equal"
dtypes_differ(cells) ==
    \E k \in 1..Len(cells) : cells[k].dtype # cells[1].dtype

\* the result of header_from_mesh(mesh, fh) called at time now: the lines
\* written to fh, mesh.cells afterwards, the warnings, the exception
header_from_mesh(mesh, now) ==
    LET preamble ==
            << <<"ply">>,
               <<"format", SP, "ascii", SP, "1.0">>,
               <<"comment", SP, "Created", SP, "by", SP, "ply-zarr", SP,
                 "v0.0.1,", SP, isoformat(now)>>,
               <<"element", SP, "vertex", SP, str_(mesh.points.shape[1])>> >>
              \o coord_lines(mesh.points)
              \o point_data_lines(mesh.point_data)
        w1 == point_data_warns(mesh.point_data)
        n == num_cells(mesh.cells)
        cast == downcast(mesh.cells)
        w2 == IF has_cast(mesh.cells) THEN w1 \cup {W_downcast} ELSE w1
        face == << <<"element", SP, "face", SP, str_(n)>> >>
        vi == << <<"property", SP, "list", SP, "uint8", SP,
                   numpy_to_ply_dtype(cast[1].dtype), SP, "vertex_indices">> >>
    IN
    IF n = 0
    THEN [status |-> "ok", lines |-> preamble \o << <<"end_header">> >>,
          cells |-> mesh.cells, warns |-> w1]
    ELSE IF dtypes_differ(cast)
    THEN [status |-> "IOError", lines |-> preamble \o face,
          cells |-> cast, warns |-> w2]
    ELSE IF mesh.cell_data # <<>>
    THEN \* "for key, vals in mesh.cell_data" unpacks the key itself
         [status |-> IF KeyLen(mesh.cell_data[1].key) = 2
                     THEN "KeyError" ELSE "ValueError",
          lines |-> preamble \o face \o vi, cells |-> cast, warns |-> w2]
    ELSE [status |-> "ok",
          lines |-> preamble \o face \o vi \o << <<"end_header">> >>,
          cells |-> cast, warns |-> w2]

\* ----------------------------------------------------------------- write
\* points_grp[coord] = mesh.points[:, i] for the axes, then
\* points_grp[key] = val for every point_data entry
column(points, i) ==
    [dtype |-> points.dtype, shape |-> <<points.shape[1]>>,
     data |-> [r \in 1..Len(points.data) |-> points.data[r][i]]]

RECURSIVE put_coords(_, _, _)
put_coords(grp, points, i) ==
    IF i > points.shape[2] \/ i > 3 THEN grp
    ELSE put_coords(Put(grp, Tok(dim_names[i]), column(points, i)), points, i + 1)

RECURSIVE put_all(_, _)
put_all(grp, entries) ==
    IF entries = <<>> THEN grp
    ELSE put_all(Put(grp, Head(entries).key, Head(entries).val), Tail(entries))

\* cnt_group[key] = np.array(vals[i]) for every cell_data entry
RECURSIVE put_cell_data(_, _, _)
put_cell_data(grp, cell_data, i) ==
    IF cell_data = <<>> THEN grp
    ELSE put_cell_data(Put(grp, Head(cell_data).key, Head(cell_data).val[i]),
                       Tail(cell_data), i)

\* the loop over mesh.cells from block i on; create_group refuses a name
\* that is already a member of the group
RECURSIVE write_blocks(_, _, _, _)
write_blocks(kids, cells, cell_data, i) ==
    IF i > Len(cells) THEN [status |-> "ok", kids |-> kids]
    ELSE
      LET block == cells[i]
          cnt == Tok(str_(block.shape[2]))
      IN
      IF Has(kids, cnt)
      THEN [status |-> "ContainsGroupError", kids |-> kids]
      ELSE
        LET cnt_group ==
              put_cell_data(
                  Put(<<>>, Tok("vertex_indices"),
                      [dtype |-> block.dtype, shape |-> block.shape,
                       data |-> block.data]),
                  cell_data, i)
        IN write_blocks(Put(kids, cnt, cnt_group), cells, cell_data, i + 1)

\* write(group, mesh) called at time now: the group and mesh.cells
\* afterwards, the warnings, "ok" or the exception raised
write(group, mesh, now) ==
    LET h == header_from_mesh(mesh, now) IN
    IF h.status # "ok"
    THEN [status |-> h.status, group |-> group, cells |-> h.cells,
          warns |-> h.warns]
    ELSE
      LET a == attrs_update(group.attrs, parse_ply_header(h.lines).attrs) IN
      IF Has(group.kids, Tok("points"))
      THEN [status |-> "ContainsGroupError",
            group |-> [attrs |-> a, kids |-> group.kids],
            cells |-> h.cells, warns |-> h.warns]
      ELSE
        LET points_grp ==
                put_all(put_coords(<<>>, mesh.points, 1), mesh.point_data)
            b == write_blocks(Put(group.kids, Tok("points"), points_grp),
                              h.cells, mesh.cell_data, 1)
        IN [status |-> b.status,
            group |-> [attrs |-> a, kids |-> b.kids],
            cells |-> h.cells, warns |-> h.warns]

\* ------------------------------------------------------------------ read
EmptyMesh ==
    [points |-> [dtype |-> "float64", shape |-> <<0, 0>>, data |-> <<>>],
     point_data |-> <<>>, cells |-> <<>>, cell_data |-> <<>>]

Raised(e) == [status |-> e, mesh |-> EmptyMesh]

\* [p[-1] for p in properties]
last_names(props) == [i \in 1..Len(props) |-> props[i][Len(props[i])]]

InSeq(v, sq) == \E i \in 1..Len(sq) : sq[i] = v

\* [c for c in "xyz" if c in point_props]
coords_of(point_props) ==
    SelectSeq(<<Tok("x"), Tok("y"), Tok("z")>>, LAMBDA c : InSeq(c, point_props))

\* np.vstack([group.points[c] for c in coords]).T
vstack_T(pts, coords) ==
    LET n == Val(pts, coords[1]).shape[1] IN
    [dtype |-> Val(pts, coords[1]).dtype,
     shape |-> <<n, Len(coords)>>,
     data |-> [r \in 1..n |-> [j \in 1..Len(coords) |-> Val(pts, coords[j]).data[r]]]]

\* the vertex properties that are no coordinate, as point_data entries
RECURSIVE read_point_data(_, _, _, _)
read_point_data(pts, point_props, coords, point_data) ==
    IF point_props = <<>> THEN point_data
    ELSE LET key == Head(point_props) IN
         read_point_data(pts, Tail(point_props), coords,
                         IF InSeq(key, coords) THEN point_data
                         ELSE Put(point_data, key, Val(pts, key)))

\* cell_data[prop].append(...) for the face properties but vertex_indices
RECURSIVE append_cell_data(_, _, _)
append_cell_data(cell_data, cell_props, grp) ==
    IF cell_props = <<>> THEN cell_data
    ELSE LET prop == Head(cell_props)[Len(Head(cell_props))] IN
         append_cell_data(
             IF prop = Tok("vertex_indices") THEN cell_data
             ELSE Put(cell_data, prop,
                      Append(IF Has(cell_data, prop) THEN Val(cell_data, prop)
                             ELSE <<>>,
                             Val(grp, prop))),
             Tail(cell_props), grp)

\* a face property of which some numeric member of the group has no array
MissingCellArray(kids, cell_props) ==
    \E i \in 1..Len(kids), j \in 1..Len(cell_props) :
        /\ isnumeric(kids[i].key)
        /\ ~Has(kids[i].val, cell_props[j][Len(cell_props[j])])

\* the loop "for key in group.keys()" over the members in listing order
RECURSIVE read_cells(_, _, _)
read_cells(kids, cell_props, acc) ==
    IF kids = <<>> THEN acc
    ELSE
      LET key == Head(kids).key
          grp == Head(kids).val
      IN
      IF ~isnumeric(key) THEN read_cells(Tail(kids), cell_props, acc)
      ELSE
        LET vi == Val(grp, Tok("vertex_indices")) IN
        read_cells(Tail(kids), cell_props,
            [cells |-> Append(acc.cells,
                        [cell_type |-> cell_type_from_count(int_(key[1])),
                         dtype |-> vi.dtype, shape |-> vi.shape,
                         data |-> vi.data]),
             cell_data |-> append_cell_data(acc.cell_data, cell_props, grp)])

\* read(group) with group.keys() listing the members in the order of kids.
\* Mesh(...) checks that every point_data array is as long as points and
\* every cell_data list as long as cells; both hold of what is built here.
read(gattrs, kids) ==
    IF "elements" \notin gattrs.keys \/ ~HasElem(gattrs.elements, Tok("vertex"))
    THEN Raised("KeyError")
    ELSE
      LET vertex == CHOOSE e \in {gattrs.elements[i] : i \in 1..Len(gattrs.elements)} :
                        e.name = Tok("vertex")
          point_props == last_names(vertex.properties)
          coords == coords_of(point_props)
      IN
      IF coords = <<>> THEN Raised("ValueError")
      ELSE IF ~Has(kids, Tok("points")) THEN Raised("AttributeError")
      ELSE
        LET pts == Val(kids, Tok("points")) IN
        IF \E i \in 1..Len(point_props) : ~Has(pts, point_props[i])
        THEN Raised("KeyError")
        ELSE IF ~HasElem(gattrs.elements, Tok("face")) THEN Raised("KeyError")
        ELSE
          LET face == CHOOSE e \in {gattrs.elements[i] : i \in 1..Len(gattrs.elements)} :
                          e.name = Tok("face")
          IN
          IF MissingCellArray(kids, face.properties) THEN Raised("KeyError")
          ELSE
            LET c == read_cells(kids, face.properties,
                                [cells |-> <<>>, cell_data |-> <<>>])
            IN [status |-> "ok",
                mesh |-> [points |-> vstack_T(pts, coords),
                          point_data |-> read_point_data(pts, point_props, coords, <<>>),
                          cells |-> c.cells,
                          cell_data |-> c.cell_data]]

\* ------------------------------------------------- mesh inputs (bounded)
Arities == {3, 4}
IndexDtypes == {"int16", "int32", "int64"}
Dims == {2, 3}

PointsOf(n, d) ==
    [dtype |-> "float64", shape |-> <<n, d>>,
     data |-> [r \in 1..n |-> [j \in 1..d |-> 10 * r + j]]]

\* a block of n faces on k vertices each
BlockOf(k, n, dt) ==
    [cell_type |-> cell_type_from_count(k), dtype |-> dt, shape |-> <<n, k>>,
     data |-> [r \in 1..n |-> [j \in 1..k |-> 0]]]

Blocks == {BlockOf(k, n, dt) : k \in Arities, n \in 0..MaxRows, dt \in IndexDtypes}

PointDataOf(n) ==
    { <<>>,
      << [key |-> Tok("q"),
          val |-> [dtype |-> "float64", shape |-> <<n>>,
                   data |-> [r \in 1..n |-> 100 + r]]] >>,
      << [key |-> Tok("q"),
          val |-> [dtype |-> "float64", shape |-> <<n, 2>>,
                   data |-> [r \in 1..n |-> <<100 + r, 200 + r>>]]] >> }

\* one value array per block for the attribute "a"
CellDataOf(cells) ==
    { <<>>,
      << [key |-> Tok("a"),
          val |-> [b \in 1..Len(cells) |->
                     [dtype |-> "float64", shape |-> <<cells[b].shape[1]>>,
                      data |-> [r \in 1..cells[b].shape[1] |-> 50 + b]]]] >> }

MeshOf(n, d, pd, cs, cd) ==
    [points |-> PointsOf(n, d), point_data |-> pd, cells |-> cs, cell_data |-> cd]

\* the meshes a group is written with again: one 3-D point, blocks of one
\* face each
ReBlocks == {BlockOf(k, 1, dt) : k \in Arities, dt \in {"int16", "int32"}}
ReLens == {0, 1, 2}

IsReMesh(m) ==
    \E n \in ReLens : \E cs \in [1..n -> ReBlocks] :
        m = MeshOf(1, 3, <<>>, cs, <<>>)

\* ------------------------------------------------------------ the state
VARIABLES
    group,   \* the zarr group
    before,  \* the group when the last write was called
    mesh0,   \* the mesh the last write was called with
    mesh,    \* the caller's mesh after the last write
    warns,   \* the warnings the last write emitted
    wlog,    \* the outcome of every write so far: "ok" or the exception
    rres     \* the outcome of the read made since the last write

svars == <<group, before, mesh0, mesh, warns, wlog, rres>>

NotRead == Raised("none")

StoreInit ==
    /\ group = EmptyGroup
    /\ before = EmptyGroup
    /\ mesh0 = EmptyMesh
    /\ mesh = EmptyMesh
    /\ warns = {}
    /\ wlog = <<>>
    /\ rres = NotRead

\* write(group, m)
DoWrite(m) ==
    \E w \in {write(group, m, Len(wlog))} :
        /\ group' = w.group
        /\ before' = group
        /\ mesh0' = m
        /\ mesh' = [m EXCEPT !.cells = w.cells]
        /\ warns' = w.warns
        /\ wlog' = Append(wlog, w.status)
        /\ rres' = NotRead
        /\ UNCHANGED cvars

\* the first write of the group, with any mesh
FirstWrite ==
    /\ wlog = <<>>
    /\ \E n \in 1..MaxPoints, d \in Dims, nb \in 0..MaxBlocks :
         \E cs \in [1..nb -> Blocks] :
            \E pd \in PointDataOf(n), cd \in CellDataOf(cs) :
               DoWrite(MeshOf(n, d, pd, cs, cd))

\* a further write of the same group
ReWrite ==
    /\ wlog # <<>>
    /\ Len(wlog) < MaxWrites
    /\ IsReMesh(mesh0)
    /\ \E n \in ReLens : \E cs \in [1..n -> ReBlocks] :
         DoWrite(MeshOf(1, 3, <<>>, cs, <<>>))

\* read(group); the listing order of group.keys() is the store's
Read ==
    /\ rres = NotRead
    /\ \E pi \in Permutations(1..Len(group.kids)) :
         rres' = read(group.attrs, [i \in 1..Len(group.kids) |-> group.kids[pi[i]]])
    /\ UNCHANGED <<group, before, mesh0, mesh, warns, wlog>>
    /\ UNCHANGED cvars

Next == FirstWrite \/ ReWrite \/ Read

vars == <<cvars, svars>>

\* the layout mapper: writes and reads of one group
Init == StoreInit /\ CodecIdle

Spec == Init /\ [][Next]_vars

\* the header codec: one round trip of a text or of a record
CodecInit == CodecInputs /\ StoreInit

ParseHeader == DoParse /\ UNCHANGED svars

SerializeHeader == DoSerialize /\ UNCHANGED svars

CodecNext == ParseHeader \/ SerializeHeader

SpecCodec == CodecInit /\ [][CodecNext]_vars

\* ---------------------------------------------- claims: layout mapper
Last(sq) == sq[Len(sq)]

\* the index dtype of a block once 64-bit indices are cast down
Down(dt) == IF dt = "int64" THEN "int32" ELSE dt

\* the blocks do not all share one index dtype after the downcast
Hetero(m) ==
    \E i, j \in 1..Len(m.cells) : Down(m.cells[i].dtype) # Down(m.cells[j].dtype)

RECURSIVE SumRows(_)
SumRows(cells) ==
    IF cells = <<>> THEN 0 ELSE Len(Head(cells).data) + SumRows(Tail(cells))

\* the number of faces on k vertices in the blocks
RowsOfArity(cells, k) ==
    SumRows(SelectSeq(cells, LAMBDA b : b.shape[2] = k))

AritiesOf(cells) == {cells[b].shape[2] : b \in 1..Len(cells)}

NumericKeys(g) == {g.kids[i].key : i \in {j \in 1..Len(g.kids) : isnumeric(g.kids[j].key)}}

Names(d) == {d[i].key : i \in 1..Len(d)}

HeaderStored(g) == "elements" \in g.attrs.keys

ElemOf(g, name) ==
    CHOOSE e \in {g.attrs.elements[i] : i \in 1..Len(g.attrs.elements)} :
        e.name = name

\* C3 (as stated): a mesh with at least one point and one face, written to
\* an empty container and read back, comes back with the same points in
\* the same column order and with blocks, each of one vertex count, that
\* hold as many faces in total as the mesh written.
C3_WriteReadRoundTrip ==
    (/\ Len(wlog) = 1 /\ rres # NotRead
     /\ ~Hetero(mesh0) /\ SumRows(mesh0.cells) >= 1)
    =>
    /\ rres.status = "ok"
    /\ rres.mesh.points.shape[1] = mesh0.points.shape[1]
    /\ rres.mesh.points.data = mesh0.points.data
    /\ SumRows(rres.mesh.cells) = SumRows(mesh0.cells)
    /\ \A b \in 1..Len(rres.mesh.cells) :
         \A r \in 1..Len(rres.mesh.cells[b].data) :
            Len(rres.mesh.cells[b].data[r]) = rres.mesh.cells[b].shape[2]

\* C4 (as stated): once write has stored the header, the numeric members
\* of the group partition the faces by vertex count: one member per arity
\* k of mesh.cells, its vertex_indices of width k with as many rows as the
\* mesh has faces on k vertices, also when several blocks share an arity.
C4_ArityPartition ==
    (Len(wlog) = 1 /\ HeaderStored(group))
    =>
    /\ NumericKeys(group) = {Tok(str_(k)) : k \in AritiesOf(mesh.cells)}
    /\ \A k \in AritiesOf(mesh.cells) :
         /\ Has(group.kids, Tok(str_(k)))
         /\ Has(Val(group.kids, Tok(str_(k))), Tok("vertex_indices"))
         /\ Val(Val(group.kids, Tok(str_(k))), Tok("vertex_indices")).shape
              = <<RowsOfArity(mesh.cells, k), k>>

\* C5 (as stated): a mesh whose blocks do not share one index dtype after
\* the downcast makes write fail with the write error, the group left as
\* it was when write was called.
C5_HeteroFailsAnyMesh ==
    (Len(wlog) >= 1 /\ Hetero(mesh0))
    => (Last(wlog) = "IOError" /\ group = before)

\* C5 (amended): a mesh with at least one face whose blocks do not share
\* one index dtype after the downcast makes write fail with the write
\* error, the group left as it was when write was called.
C5_HeteroFailsWithFaces ==
    (Len(wlog) >= 1 /\ Hetero(mesh0) /\ SumRows(mesh0.cells) > 0)
    => (Last(wlog) = "IOError" /\ group = before)

C5_Witness ==
    /\ Len(wlog) = 2 /\ wlog[1] = "ok" /\ wlog[2] = "IOError"
    /\ Hetero(mesh0) /\ SumRows(mesh0.cells) > 0
    /\ before # EmptyGroup

AllInt64(m) ==
    Len(m.cells) >= 1 /\ \A b \in 1..Len(m.cells) : m.cells[b].dtype = "int64"

DowncastDone ==
    /\ \A b \in 1..Len(mesh.cells) : mesh.cells[b].dtype = "int32"
    /\ W_downcast \in warns
    /\ HeaderStored(group)
    /\ HasElem(group.attrs.elements, Tok("face"))
    /\ ElemOf(group, Tok("face")).properties = <<P_list>>
    /\ \A i \in 1..Len(group.kids) :
         isnumeric(group.kids[i].key) =>
            Val(group.kids[i].val, Tok("vertex_indices")).dtype = "int32"

\* C6 (as stated): after a write of a mesh whose blocks carry int64
\* indices, every block of the caller's mesh is int32, the downcast
\* warning was emitted, the stored header declares vertex_indices as a
\* list of int32 and every stored vertex_indices array is int32.
C6_DowncastAnyMesh ==
    (Len(wlog) >= 1 /\ Last(wlog) = "ok" /\ AllInt64(mesh0)) => DowncastDone

\* C6 (amended): after a write of a mesh with at least one face whose
\* blocks carry int64 indices, every block of the caller's mesh is int32,
\* the downcast warning was emitted, the stored header declares
\* vertex_indices as a list of int32 and every stored vertex_indices array
\* is int32.
C6_DowncastWithFaces ==
    (/\ Len(wlog) >= 1 /\ Last(wlog) = "ok"
     /\ AllInt64(mesh0) /\ SumRows(mesh0.cells) > 0)
    => DowncastDone

C6_Witness ==
    /\ Len(wlog) = 1 /\ wlog[1] = "ok"
    /\ AllInt64(mesh0) /\ Len(mesh0.cells) = 2
    /\ \A b \in 1..2 : Len(mesh0.cells[b].data) > 0
    /\ Cardinality(NumericKeys(group)) = 2

\* C7 (as stated): a second write on the same group, of a mesh that an
\* empty group accepts, completes and leaves the header, the points and
\* the arity members exactly as that write leaves them on an empty group.
C7_RewriteOverwrites ==
    (/\ Len(wlog) = 2 /\ wlog[1] = "ok"
     /\ write(EmptyGroup, mesh0, 1).status = "ok")
    =>
    /\ wlog[2] = "ok"
    /\ group = write(EmptyGroup, mesh0, 1).group

\* C8 (as stated): after write, the arrays of the points member are
\* exactly the properties of the stored vertex element, a point_data entry
\* of more than one dimension being skipped with a warning.
C8_MultiDimSkipped ==
    (Len(wlog) = 1 /\ wlog[1] = "ok")
    =>
    /\ (\E i \in 1..Len(mesh0.point_data) :
            Len(mesh0.point_data[i].val.shape) > 1) => W_multidim \in warns
    /\ Names(Val(group.kids, Tok("points")))
         = {p[Len(p)] : p \in {ElemOf(group, Tok("vertex")).properties[i] :
                i \in 1..Len(ElemOf(group, Tok("vertex")).properties)}}

\* C9 (as stated): for a mesh with at least one face and some cell_data,
\* write completes and stores one array per cell_data entry in each arity
\* member, and a following read returns, for every cell_data name, one
\* array per returned block.
C9_CellDataRoundTrip ==
    (/\ Len(wlog) = 1 /\ ~Hetero(mesh0)
     /\ SumRows(mesh0.cells) >= 1 /\ mesh0.cell_data # <<>>)
    =>
    /\ wlog[1] = "ok"
    /\ \A i \in 1..Len(group.kids) :
         isnumeric(group.kids[i].key) =>
            Names(mesh0.cell_data) \subseteq Names(group.kids[i].val)
    /\ rres # NotRead =>
         /\ rres.status = "ok"
         /\ \A k \in Names(mesh0.cell_data) :
              /\ Has(rres.mesh.cell_data, k)
              /\ Len(Val(rres.mesh.cell_data, k)) = Len(rres.mesh.cells)

\* C10 (as stated): for a mesh without any face, write stores a header
\* without face element and creates no arity member, and a following read
\* completes and returns the same points and no block.
C10_FacesOptional ==
    (Len(wlog) = 1 /\ SumRows(mesh0.cells) = 0)
    =>
    /\ wlog[1] = "ok"
    /\ ~HasElem(group.attrs.elements, Tok("face"))
    /\ NumericKeys(group) = {}
    /\ rres # NotRead =>
         /\ rres.status = "ok"
         /\ rres.mesh.points.data = mesh0.points.data
         /\ rres.mesh.cells = <<>>

====
